---- MODULE Spec2Model ----
(***************************************************************************)
(* Booking / payment reconciliation core of the travel API.                 *)
(*                                                                         *)
(* The database tables "booking" and "payment" are the state.  Every route *)
(* handler of routes/payments.ts (createPayment, updatePaymentStatus,      *)
(* refund, the Stripe webhook and its four event handlers) and the two     *)
(* booking handlers that write booking.status are operators over that      *)
(* state.  Amounts are whole currency units; Stripe amounts are cents.     *)
(*                                                                         *)
(* Spec      : requests are served one after the other (a handler is one   *)
(*             step).                                                      *)
(* ConcSpec  : two requests overlap; every awaited database call of a      *)
(*             handler is one step, the handler's locals live in a slot.   *)
(***************************************************************************)
EXTENDS Integers, Sequences, FiniteSets, TLC

VARIABLES
    bookings,       \* booking id -> [status, totalPrice, userId]
    payments,       \* sequence of payment rows; a payment's id is its index
    last,           \* the request served last and the response it got
    served,         \* number of requests accepted for service so far
    slots,          \* ConcSpec: the in-flight requests and their locals
    base,           \* ConcSpec: the tables when the overlapping pair began
    catalog,        \* activity id -> activity.price
    items,          \* <<booking id, activity id>> -> the booking's line item
    dates,          \* booking id -> [startDate, endDate], in days
    outbox,         \* DeliverySpec: the events the provider has yet to get acknowledged
    faults          \* DeliverySpec: the storage failures still to come

vars == <<bookings, payments, last, served, slots, base, catalog, items, dates,
          outbox, faults>>

----------------------------------------------------------------------------
(* Bounds of the model *)

MaxRequests == 4      \* requests served in one run
MaxPayments == 2      \* payment rows that may be inserted
MaxFaults == 2        \* storage failures met by webhook deliveries in one run

----------------------------------------------------------------------------
(* Domains *)

BookingIds == {"b1"}
BookingTotals == {2}    \* booking.totalPrice of the bookings that exist
MaxPrice == CHOOSE t \in BookingTotals : \A u \in BookingTotals : u <= t
UnknownBooking == "b0"
Owner == "u1"
Admin == "admin"

BookingStatuses == {"pending", "confirmed", "cancelled", "completed"}
PaymentStatuses ==
    {"pending", "processing", "completed", "failed", "refunded", "partially_refunded"}

NoAmount == -1          \* the optional body field "amount" left out
NoIntent == 0           \* payment.paymentIntentId IS NULL
NoTxn == 0              \* payment.transactionId IS NULL
CentsPerUnit == 100

NoSecret == "unset"
ProviderSecret == "whsec_live"
ForgedSecret == "whsec_forged"

HandledEventTypes ==
    {"payment_intent.succeeded", "payment_intent.payment_failed",
     "payment_intent.canceled", "charge.refunded"}

\* the catalog and the line items
ActivityIds == {"a1", "a2"}
UnknownActivity == "a0"
CatalogPrices == {1, 2}         \* activity.price
BookedActivity == "a1"          \* the activity of the bookings that exist
InitialCatalog == [a \in ActivityIds |-> IF a = BookedActivity THEN MaxPrice ELSE 1]
\* dates, in days; a booking made without a word on its dates runs from day 1
\* to day 2
Days == 1..3
NoDate == 0                     \* the optional body field left out
DefaultDates == [startDate |-> 1, endDate |-> 2]

\* packages: p1 holds the booked activity and carries a base fee
Packages == {"p1"}
NoPackage == "none"
UnknownPackage == "p0"
PackageBasePrice == [p \in Packages |-> 1]
PackageActivities == [p \in Packages |-> {BookedActivity}]
NoTime == "unscheduled"         \* booking_activity.scheduled_at IS NULL
NoGuide == "unassigned"         \* booking_activity.guide_id IS NULL
Guides == {"g1"}

LineItem(price, scheduledAt) ==
    [priceAtBooking |-> price, scheduledAt |-> scheduledAt, guideId |-> NoGuide]

PaymentIds == 1..Len(payments)

----------------------------------------------------------------------------
(* Helpers over the tables *)

RECURSIVE SumCompleted(_, _, _)
SumCompleted(ps, b, i) ==
    IF i = 0 THEN 0
    ELSE SumCompleted(ps, b, i - 1)
         + (IF ps[i].bookingId = b /\ ps[i].status = "completed" THEN ps[i].amount ELSE 0)

\* bookingPayments.filter(completed).reduce(sum + Number(amount))
TotalPaid(ps, b) == SumCompleted(ps, b, Len(ps))

RECURSIVE SumSeq(_)
SumSeq(s) == IF s = <<>> THEN 0 ELSE Head(s) + SumSeq(Tail(s))

\* metadata.totalRefunded = refunds.reduce(sum + r.amount)
TotalRefunded(p) == SumSeq(p.refunds)

Result(ps, bs, code) == [payments |-> ps, bookings |-> bs, code |-> code]

SetBookingStatus(bs, b, st) == [bs EXCEPT ![b].status = st]

----------------------------------------------------------------------------
(* POST /api/payments : createPayment *)

\* createPaymentSchema: amount is z.number().positive().optional()
ValidCreatePaymentBody(amount) == amount = NoAmount \/ amount > 0

\* const paymentAmount = amount ?? Number(booking.totalPrice)
PaymentAmount(amount, booking) ==
    IF amount = NoAmount THEN booking.totalPrice ELSE amount

\* variant: the amount is not compared with the booking's total
AmountAcceptedNoUpperCheck(paymentAmount, booking) ==
    ~(paymentAmount <= 0)

\* the two amount checks of the handler; TRUE when the amount is accepted
AmountAccepted(paymentAmount, booking) ==
    /\ ~(paymentAmount <= 0)
    /\ ~(paymentAmount > booking.totalPrice)

\* the row of db.insert(payments).values({...}); Stripe names the intent
NewPayment(ps, b, paymentAmount, provider) ==
    [bookingId |-> b,
     amount |-> paymentAmount,
     status |-> "pending",
     provider |-> provider,
     paymentIntentId |-> IF provider = "stripe" THEN Len(ps) + 1 ELSE NoIntent,
     transactionId |-> NoTxn,
     refunds |-> <<>>]

\* variant: the row is inserted before the gateway is asked for the intent
CreatePaymentInsertsBeforeIntent(ps, bs, user, b, amount, provider, gatewayOk) ==
    IF ~ValidCreatePaymentBody(amount) THEN Result(ps, bs, 400)
    ELSE IF b \notin DOMAIN bs THEN Result(ps, bs, 404)
    ELSE IF bs[b].userId # user THEN Result(ps, bs, 403)
    ELSE IF bs[b].status = "cancelled" THEN Result(ps, bs, 400)
    ELSE IF ~AmountAccepted(PaymentAmount(amount, bs[b]), bs[b]) THEN Result(ps, bs, 400)
    ELSE IF provider = "stripe" /\ ~gatewayOk
         THEN Result(Append(ps, [NewPayment(ps, b, PaymentAmount(amount, bs[b]), provider)
                                    EXCEPT !.paymentIntentId = NoIntent]),
                     bs, 500)
    ELSE Result(Append(ps, NewPayment(ps, b, PaymentAmount(amount, bs[b]), provider)),
                bs, 201)

CreatePayment(ps, bs, user, b, amount, provider, gatewayOk) ==
    IF ~ValidCreatePaymentBody(amount) THEN Result(ps, bs, 400)
    ELSE IF b \notin DOMAIN bs THEN Result(ps, bs, 404)
    ELSE IF bs[b].userId # user THEN Result(ps, bs, 403)
    ELSE IF bs[b].status = "cancelled" THEN Result(ps, bs, 400)
    ELSE IF ~AmountAccepted(PaymentAmount(amount, bs[b]), bs[b]) THEN Result(ps, bs, 400)
    ELSE IF provider = "stripe" /\ ~gatewayOk THEN Result(ps, bs, 500)
    ELSE Result(Append(ps, NewPayment(ps, b, PaymentAmount(amount, bs[b]), provider)),
                bs, 201)

----------------------------------------------------------------------------
(* PATCH /api/payments/:id : updatePaymentStatus *)

NoPatch == "none"
MetadataPatches == {NoPatch, "refunds"}

\* {...existingMetadata, ...metadata}: a patch carrying the key "refunds"
\* (here with an empty list) replaces the refund history
MergeMetadata(refunds, patch) == IF patch = "refunds" THEN <<>> ELSE refunds

\* variant: a payment marked failed cancels the booking as a refund does
BookingAfterStatusUpdateFailedCancels(newStatus, bookingStatus) ==
    IF newStatus = "completed" /\ bookingStatus = "pending" THEN "confirmed"
    ELSE IF newStatus \in {"refunded", "failed"} /\ bookingStatus # "cancelled"
         THEN "cancelled"
    ELSE bookingStatus

\* the booking write that follows the payment write, decided on the booking
\* status read before it
BookingAfterStatusUpdate(newStatus, bookingStatus) ==
    IF newStatus = "completed" /\ bookingStatus = "pending" THEN "confirmed"
    ELSE IF newStatus = "refunded" /\ bookingStatus # "cancelled" THEN "cancelled"
    ELSE bookingStatus

UpdatePaymentStatus(ps, bs, user, pid, newStatus, txn, patch) ==
    IF user # Admin THEN Result(ps, bs, 403)
    ELSE IF pid \notin 1..Len(ps) THEN Result(ps, bs, 404)
    ELSE LET b == ps[pid].bookingId
             ps1 == [ps EXCEPT ![pid].status = newStatus,
                               ![pid].transactionId =
                                   IF txn # NoTxn THEN txn ELSE @,
                               ![pid].refunds = MergeMetadata(@, patch)]
         IN Result(ps1,
                   SetBookingStatus(bs, b, BookingAfterStatusUpdate(newStatus, bs[b].status)),
                   200)

----------------------------------------------------------------------------
(* POST /api/payments/:id/refund *)

\* processRefundSchema: amount is z.number().positive().optional()
ValidRefundBody(amount) == amount = NoAmount \/ amount > 0

\* variant: a refunded payment may be refunded again
RefundableAlsoRefunded(status) ==
    status = "completed" \/ status = "partially_refunded" \/ status = "refunded"

Refundable(status) == status = "completed" \/ status = "partially_refunded"

\* const refundAmountNum = refundAmount ?? paymentAmountNum
RefundAmount(amount, payment) ==
    IF amount = NoAmount THEN payment.amount ELSE amount

\* the two amount checks of the handler; TRUE when the amount is accepted
RefundAmountAccepted(refundAmountNum, payment) ==
    /\ ~(refundAmountNum <= 0)
    /\ ~(refundAmountNum > payment.amount)

\* variant: a refund of the whole amount is not taken as full
IsFullRefundStrict(refundAmountNum, paymentAmountNum) == refundAmountNum > paymentAmountNum

\* const isFullRefund = refundAmountNum >= paymentAmountNum
IsFullRefund(refundAmountNum, paymentAmountNum) == refundAmountNum >= paymentAmountNum

RefundedStatus(full) == IF full THEN "refunded" ELSE "partially_refunded"

\* variant: every refund cancels the booking
BookingAfterAnyRefund(full, bookingStatus) ==
    IF bookingStatus # "cancelled" THEN "cancelled" ELSE bookingStatus

\* if (isFullRefund && payment.bookingStatus !== "cancelled") cancel the booking
BookingAfterRefund(full, bookingStatus) ==
    IF full /\ bookingStatus # "cancelled" THEN "cancelled" ELSE bookingStatus

\* variant: the refund is recorded locally before the gateway is called
RefundRecordsBeforeGateway(ps, bs, user, pid, amount, gatewayOk) ==
    IF ~ValidRefundBody(amount) THEN Result(ps, bs, 400)
    ELSE IF user # Admin THEN Result(ps, bs, 403)
    ELSE IF pid \notin 1..Len(ps) THEN Result(ps, bs, 404)
    ELSE IF ~Refundable(ps[pid].status) THEN Result(ps, bs, 400)
    ELSE IF ~RefundAmountAccepted(RefundAmount(amount, ps[pid]), ps[pid])
         THEN Result(ps, bs, 400)
    ELSE IF ps[pid].provider = "stripe" /\ ps[pid].paymentIntentId = NoIntent
         THEN Result(ps, bs, 400)
    ELSE LET b == ps[pid].bookingId
             refundAmountNum == RefundAmount(amount, ps[pid])
             full == IsFullRefund(refundAmountNum, ps[pid].amount)
             ps1 == [ps EXCEPT ![pid].status = RefundedStatus(full),
                               ![pid].refunds = Append(@, refundAmountNum)]
         IN Result(ps1, SetBookingStatus(bs, b, BookingAfterRefund(full, bs[b].status)),
                   IF ps[pid].provider = "stripe" /\ ~gatewayOk THEN 500 ELSE 200)

Refund(ps, bs, user, pid, amount, gatewayOk) ==
    IF ~ValidRefundBody(amount) THEN Result(ps, bs, 400)
    ELSE IF user # Admin THEN Result(ps, bs, 403)
    ELSE IF pid \notin 1..Len(ps) THEN Result(ps, bs, 404)
    ELSE IF ~Refundable(ps[pid].status) THEN Result(ps, bs, 400)
    ELSE IF ~RefundAmountAccepted(RefundAmount(amount, ps[pid]), ps[pid])
         THEN Result(ps, bs, 400)
    ELSE IF ps[pid].provider = "stripe" /\ ps[pid].paymentIntentId # NoIntent /\ ~gatewayOk
         THEN Result(ps, bs, 500)
    ELSE IF ps[pid].provider = "stripe" /\ ps[pid].paymentIntentId = NoIntent
         THEN Result(ps, bs, 400)
    ELSE LET b == ps[pid].bookingId
             refundAmountNum == RefundAmount(amount, ps[pid])
             full == IsFullRefund(refundAmountNum, ps[pid].amount)
             ps1 == [ps EXCEPT ![pid].status = RefundedStatus(full),
                               ![pid].refunds = Append(@, refundAmountNum)]
         IN Result(ps1, SetBookingStatus(bs, b, BookingAfterRefund(full, bs[b].status)), 200)

----------------------------------------------------------------------------
(* POST /api/payments/webhooks/payment *)

\* The provider signs the raw body with the shared secret.
Sign(rawBody, key) == [over |-> rawBody, key |-> key]

\* variant: the key is checked, the body the signature covers is not
SignatureKeyOnly(rawBody, header, secret) ==
    header # {} /\ \A h \in header : h.key = secret

\* stripe.webhooks.constructEvent(rawBody, signature, webhookSecret) returns
\* the event when the header holds the signature of this body under this
\* secret, and throws otherwise.  The header is {} when absent.
SignatureVerifies(rawBody, header, secret) == header = {Sign(rawBody, secret)}

\* .where(eq(payments.paymentIntentId, id)).limit(1): the rows that match
ByIntent(ps, intent) == {i \in 1..Len(ps) : ps[i].paymentIntentId = intent}

\* .where(eq(payments.transactionId, chargeId)).limit(1): the rows that match
ByCharge(ps, charge) == {i \in 1..Len(ps) : ps[i].transactionId = charge}

\* the rows an event's lookup may return
Matches(ps, body) ==
    IF body.type = "charge.refunded" THEN ByCharge(ps, body.charge)
    ELSE IF body.type \in HandledEventTypes THEN ByIntent(ps, body.intent)
    ELSE {}

\* variant: the booking's current status is not looked at
BookingAfterSuccessAnyStatus(totalPaid, booking) ==
    IF totalPaid >= booking.totalPrice THEN "confirmed" ELSE booking.status

\* if (totalPaid >= bookingTotal && booking.status === "pending") confirm
BookingAfterSuccess(totalPaid, booking) ==
    IF totalPaid >= booking.totalPrice /\ booking.status = "pending"
    THEN "confirmed" ELSE booking.status

\* variant: the total paid is computed from the rows read before the write
HandlePaymentSuccessStaleTotal(ps, bs, pick, charge) ==
    IF pick = 0 THEN Result(ps, bs, 200)
    ELSE LET b == ps[pick].bookingId
             ps1 == [ps EXCEPT ![pick].status = "completed",
                               ![pick].transactionId = charge]
         IN Result(ps1,
                   SetBookingStatus(bs, b, BookingAfterSuccess(TotalPaid(ps, b), bs[b])),
                   200)

\* variant: an event for a payment already completed is acknowledged at once
HandlePaymentSuccessSkipsCompleted(ps, bs, pick, charge) ==
    IF pick = 0 THEN Result(ps, bs, 200)
    ELSE IF ps[pick].status = "completed" THEN Result(ps, bs, 200)
    ELSE LET b == ps[pick].bookingId
             ps1 == [ps EXCEPT ![pick].status = "completed",
                               ![pick].transactionId = charge]
         IN Result(ps1,
                   SetBookingStatus(bs, b, BookingAfterSuccess(TotalPaid(ps1, b), bs[b])),
                   200)

\* pick: the row limit(1) returned, 0 when no row matches
HandlePaymentSuccess(ps, bs, pick, charge) ==
    IF pick = 0 THEN Result(ps, bs, 200)
    ELSE LET b == ps[pick].bookingId
             ps1 == [ps EXCEPT ![pick].status = "completed",
                               ![pick].transactionId = charge]
         IN Result(ps1,
                   SetBookingStatus(bs, b, BookingAfterSuccess(TotalPaid(ps1, b), bs[b])),
                   200)

HandlePaymentFailed(ps, bs, pick) ==
    IF pick = 0 THEN Result(ps, bs, 200)
    ELSE Result([ps EXCEPT ![pick].status = "failed"], bs, 200)

\* variant: a canceled intent cancels the booking as well
HandlePaymentCanceledCancelsBooking(ps, bs, pick) ==
    IF pick = 0 THEN Result(ps, bs, 200)
    ELSE Result([ps EXCEPT ![pick].status = "failed"],
                SetBookingStatus(bs, ps[pick].bookingId, "cancelled"), 200)

HandlePaymentCanceled(ps, bs, pick) ==
    IF pick = 0 THEN Result(ps, bs, 200)
    ELSE Result([ps EXCEPT ![pick].status = "failed"], bs, 200)

\* variant: the event's amount is compared without converting from cents
IsFullChargeRefundNoConversion(amountRefundedCents, paymentAmount) ==
    amountRefundedCents >= paymentAmount

\* const refundedAmount = charge.amount_refunded / 100;
\* const isFullRefund = refundedAmount >= paymentAmount
IsFullChargeRefund(amountRefundedCents, paymentAmount) ==
    amountRefundedCents >= paymentAmount * CentsPerUnit

\* bookingPayments.every(p => refunded || failed)
AllRefunded(ps, b) ==
    \A i \in 1..Len(ps) :
        ps[i].bookingId = b => ps[i].status \in {"refunded", "failed"}

\* variant: a charge without a local payment is an error for the provider
HandleRefundUnmatchedThrows(ps, bs, pick, amountRefundedCents) ==
    IF pick = 0 THEN Result(ps, bs, 500)
    ELSE LET b == ps[pick].bookingId
             full == IsFullChargeRefund(amountRefundedCents, ps[pick].amount)
             ps1 == [ps EXCEPT ![pick].status = RefundedStatus(full)]
         IN Result(ps1,
                   IF full /\ AllRefunded(ps1, b)
                   THEN SetBookingStatus(bs, b, "cancelled") ELSE bs,
                   200)

HandleRefund(ps, bs, pick, amountRefundedCents) ==
    IF pick = 0 THEN Result(ps, bs, 200)
    ELSE LET b == ps[pick].bookingId
             full == IsFullChargeRefund(amountRefundedCents, ps[pick].amount)
             ps1 == [ps EXCEPT ![pick].status = RefundedStatus(full)]
         IN Result(ps1,
                   IF full /\ AllRefunded(ps1, b)
                   THEN SetBookingStatus(bs, b, "cancelled") ELSE bs,
                   200)

\* variant: an event type without a case is an error
DispatchStrict(ps, bs, body, pick) ==
    CASE body.type = "payment_intent.succeeded" ->
             HandlePaymentSuccess(ps, bs, pick, body.charge)
      [] body.type = "payment_intent.payment_failed" -> HandlePaymentFailed(ps, bs, pick)
      [] body.type = "payment_intent.canceled" -> HandlePaymentCanceled(ps, bs, pick)
      [] body.type = "charge.refunded" -> HandleRefund(ps, bs, pick, body.refunded)
      [] OTHER -> Result(ps, bs, 400)

\* switch (event.type)
Dispatch(ps, bs, body, pick) ==
    CASE body.type = "payment_intent.succeeded" ->
             HandlePaymentSuccess(ps, bs, pick, body.charge)
      [] body.type = "payment_intent.payment_failed" -> HandlePaymentFailed(ps, bs, pick)
      [] body.type = "payment_intent.canceled" -> HandlePaymentCanceled(ps, bs, pick)
      [] body.type = "charge.refunded" -> HandleRefund(ps, bs, pick, body.refunded)
      [] OTHER -> Result(ps, bs, 200)

\* variant: the secret is not looked at before the signature is verified
WebhookNoSecretCheck(ps, bs, secret, header, body, pick) ==
    IF header = {} THEN Result(ps, bs, 400)
    ELSE IF ~SignatureVerifies(body, header, secret) THEN Result(ps, bs, 400)
    ELSE Dispatch(ps, bs, body, pick)

Webhook(ps, bs, secret, header, body, pick) ==
    IF header = {} THEN Result(ps, bs, 400)
    ELSE IF secret = NoSecret THEN Result(ps, bs, 500)
    ELSE IF ~SignatureVerifies(body, header, secret) THEN Result(ps, bs, 400)
    ELSE Dispatch(ps, bs, body, pick)

----------------------------------------------------------------------------
(* The webhook when a storage call of a handler fails *)

\* variant: the handler's catch logs the error and returns
Swallow(ps, bs) == Result(ps, bs, 200)

\* a failed storage call throws; the handler's catch logs and rethrows, the
\* route's catch answers 500
Rethrow(ps, bs) == Result(ps, bs, 500)

\* the storage calls a handler makes, in order: the lookup, the payment
\* update, then the selects and the booking update that follow it
DbCallSteps == 1..5

\* how many of them the handler makes for this event
DbCalls(ps, bs, body, pick) ==
    IF body.type \notin HandledEventTypes THEN 0
    ELSE IF pick = 0 THEN 1
    ELSE CASE body.type = "payment_intent.succeeded" ->
                 LET b == ps[pick].bookingId
                     ps1 == [ps EXCEPT ![pick].status = "completed"]
                 IN IF BookingAfterSuccess(TotalPaid(ps1, b), bs[b]) # bs[b].status
                    THEN 5 ELSE 4
           [] body.type = "charge.refunded" ->
                 LET b == ps[pick].bookingId
                     full == IsFullChargeRefund(body.refunded, ps[pick].amount)
                     ps1 == [ps EXCEPT ![pick].status = RefundedStatus(full)]
                 IN IF ~full THEN 2 ELSE IF AllRefunded(ps1, b) THEN 4 ELSE 3
           [] OTHER -> 2

\* the handler's effects when its failAt-th storage call throws: there is no
\* transaction, so the payment update made before it stays
DispatchFailing(ps, bs, body, pick, failAt) ==
    IF failAt <= 2 THEN Rethrow(ps, bs)
    ELSE Rethrow(Dispatch(ps, bs, body, pick).payments, bs)

WebhookFailing(ps, bs, secret, header, body, pick, failAt) ==
    IF header = {} THEN Result(ps, bs, 400)
    ELSE IF secret = NoSecret THEN Result(ps, bs, 500)
    ELSE IF ~SignatureVerifies(body, header, secret) THEN Result(ps, bs, 400)
    ELSE DispatchFailing(ps, bs, body, pick, failAt)

----------------------------------------------------------------------------
(* PATCH /api/bookings/:id and PATCH /api/bookings/:id/cancel, as far as   *)
(* they write booking.status                                               *)

NoStatus == "none"

UpdateBooking(ps, bs, user, b, status) ==
    IF b \notin DOMAIN bs THEN Result(ps, bs, 404)
    ELSE IF bs[b].userId # user THEN Result(ps, bs, 403)
    ELSE IF bs[b].status = "cancelled" THEN Result(ps, bs, 400)
    ELSE Result(ps, IF status # NoStatus THEN SetBookingStatus(bs, b, status) ELSE bs, 200)

\* variant: cancelling the booking marks its completed payments refunded
CancelBookingRefundsPayments(ps, bs, user, b) ==
    IF b \notin DOMAIN bs THEN Result(ps, bs, 404)
    ELSE IF bs[b].userId # user THEN Result(ps, bs, 403)
    ELSE IF bs[b].status = "cancelled" THEN Result(ps, bs, 400)
    ELSE Result([i \in 1..Len(ps) |->
                    IF ps[i].bookingId = b /\ ps[i].status = "completed"
                    THEN [ps[i] EXCEPT !.status = "refunded"] ELSE ps[i]],
                SetBookingStatus(bs, b, "cancelled"), 200)

CancelBooking(ps, bs, user, b) ==
    IF b \notin DOMAIN bs THEN Result(ps, bs, 404)
    ELSE IF bs[b].userId # user THEN Result(ps, bs, 403)
    ELSE IF bs[b].status = "cancelled" THEN Result(ps, bs, 400)
    ELSE Result(ps, SetBookingStatus(bs, b, "cancelled"), 200)

----------------------------------------------------------------------------
(* Requests served one after the other *)

NoPayment == 0

\* Stripe's identifiers: intent i is the one created for payment row i, and
\* charge i is the charge of intent i.  One more of each exists at the
\* provider without a local row.
IntentIds == 1..(MaxPayments + 1)
ChargeIds == 1..(MaxPayments + 1)

\* the ids the provider has issued so far: those of the payments created,
\* and the one without a local row
IssuedIds == (1..Len(payments)) \cup {MaxPayments + 1}

\* the request served last: its kind, the response status, the payment it
\* named or created, the body's amount (refund), and for a webhook the type
\* of the verified event, the state of the signature header and whether
\* STRIPE_WEBHOOK_SECRET was set
Served(op, code, pid, amount, type, sig, secret) ==
    [op |-> op, code |-> code, pid |-> pid, amount |-> amount, type |-> type,
     sig |-> sig, secret |-> secret]

\* process.env.STRIPE_WEBHOOK_SECRET as a webhook request may find it
SecretSettings == {NoSecret, ProviderSecret}

AmountInputs == {NoAmount} \cup 0..(MaxPrice + 1)

\* the caller is the booking's owner; the gateway outcome matters for Stripe,
\* and a failing gateway is met by the request that leaves the amount out
CreateInputs ==
    [b : BookingIds, amount : AmountInputs, provider : {"manual"}, gatewayOk : {TRUE}]
    \cup [b : BookingIds, amount : AmountInputs, provider : {"stripe"},
          gatewayOk : {TRUE}]
    \cup [b : BookingIds, amount : {NoAmount}, provider : {"stripe"},
          gatewayOk : {FALSE}]

IntentEvents ==
    {[type |-> t, intent |-> i, charge |-> i, refunded |-> 0] :
        t \in {"payment_intent.succeeded", "payment_intent.payment_failed",
               "payment_intent.canceled"},
        i \in IntentIds}

SucceededEvents == {e \in IntentEvents : e.type = "payment_intent.succeeded"}

ChargeEvents ==
    [type : {"charge.refunded"}, intent : {NoIntent}, charge : ChargeIds,
     refunded : {c * CentsPerUnit : c \in 1..MaxPrice}]

HandledEvents == IntentEvents \cup ChargeEvents

\* an event type the switch has no case for
OtherEvents ==
    [type : {"charge.refund.updated"}, intent : {NoIntent}, charge : ChargeIds,
     refunded : {MaxPrice * CentsPerUnit}]

Events == IntentEvents \cup ChargeEvents \cup OtherEvents

\* one body of every event type, about the first payment's intent and charge
ProbeEvents == {e \in Events : e.intent \in {NoIntent, 1} /\ e.charge = 1
                                /\ e.refunded \in {0, MaxPrice * CentsPerUnit}}

\* another body than the one sent: a signature over it does not cover this one
Tampered(body) == [body EXCEPT !.refunded = @ + 1]

\* the headers a request may carry: none, the provider's signature, a
\* signature under another key, the provider's signature of another body
Headers(body) ==
    {{}, {Sign(body, ProviderSecret)}, {Sign(body, ForgedSecret)},
     {Sign(Tampered(body), ProviderSecret)}}

SigState(header, body) ==
    IF header = {} THEN "absent"
    ELSE IF header = {Sign(body, ProviderSecret)} THEN "valid"
    ELSE "invalid"

\* the event type is known to the handler once constructEvent returned it
VerifiedType(secret, header, body) ==
    IF header # {} /\ secret # NoSecret /\ SignatureVerifies(body, header, secret)
    THEN body.type ELSE "none"

Picks(ps, body) == IF Matches(ps, body) = {} THEN {NoPayment} ELSE Matches(ps, body)

\* a request in flight: its kind, where it stands, its inputs, what it read
\* (the payment row, the booking's status, the total paid) and its response
NoRow == [bookingId |-> UnknownBooking, amount |-> 0, status |-> "pending",
          provider |-> "manual", paymentIntentId |-> NoIntent, transactionId |-> NoTxn,
          refunds |-> <<>>]

Idle ==
    [kind |-> "idle", pc |-> "idle", code |-> 0, pid |-> NoPayment, b |-> UnknownBooking,
     amount |-> NoAmount, provider |-> "manual", newStatus |-> "pending",
     patch |-> NoPatch, gatewayOk |-> TRUE, intent |-> NoIntent,
     resolved |-> NoAmount, row |-> NoRow, bstatus |-> "pending", total |-> 0,
     activity |-> UnknownActivity, scheduledAt |-> NoTime]

Init ==
    /\ bookings \in [BookingIds -> [status : {"pending"},
                                    totalPrice : BookingTotals,
                                    userId : {Owner}]]
    /\ payments = <<>>
    /\ last = Served("none", 0, NoPayment, NoAmount, "none", "absent", NoSecret)
    /\ served = 0
    /\ slots = [s \in 1..2 |-> Idle]
    /\ base = [payments |-> <<>>, bookings |-> bookings]
    /\ dates = [b \in BookingIds |-> DefaultDates]
    /\ outbox = {}
    /\ faults = 0
    /\ catalog = InitialCatalog
    /\ items = [k \in {<<b, BookedActivity>> : b \in BookingIds} |->
                    LineItem(catalog[BookedActivity], NoTime)]

Commit(r) ==
    /\ served < MaxRequests
    /\ served' = served + 1
    /\ payments' = r.payments
    /\ bookings' = r.bookings
    /\ UNCHANGED <<slots, base, catalog, items, dates, outbox, faults>>

CreatePaymentReq ==
    /\ Len(payments) < MaxPayments
    /\ \E in \in CreateInputs :
        LET r == CreatePayment(payments, bookings, bookings[in.b].userId, in.b, in.amount,
                               in.provider, in.gatewayOk)
        IN /\ Commit(r)
           /\ last' = Served("createPayment", r.code,
                             IF r.code = 201 THEN Len(r.payments) ELSE NoPayment,
                             NoAmount, "none", "absent", NoSecret)

\* the body's transactionId is the payment's charge at the provider, sent with
\* the status completed, or left out; bodies that write the values the row
\* already holds are not repeated
UpdatePaymentStatusReq ==
    \E pid \in PaymentIds, newStatus \in PaymentStatuses, ownTxn \in BOOLEAN,
       patch \in MetadataPatches :
        /\ ownTxn => payments[pid].transactionId # pid /\ newStatus = "completed"
        /\ patch = "refunds" => payments[pid].refunds # <<>>
        /\ LET r == UpdatePaymentStatus(payments, bookings, Admin, pid, newStatus,
                                        IF ownTxn THEN pid ELSE NoTxn, patch)
           IN /\ Commit(r)
              /\ last' = Served("updatePaymentStatus", r.code, pid, NoAmount, "none",
                                "absent", NoSecret)

\* the gateway is called for Stripe payments only; a failing gateway is met
\* by the request that leaves the amount out
RefundReq ==
    \E pid \in PaymentIds, amount \in AmountInputs, gatewayOk \in BOOLEAN :
        /\ ~gatewayOk => payments[pid].provider = "stripe" /\ amount = NoAmount
        /\ LET r == Refund(payments, bookings, Admin, pid, amount, gatewayOk)
           IN /\ Commit(r)
              /\ last' = Served("refund", r.code, pid,
                                IF r.code = 200 THEN amount ELSE NoAmount,
                                "none", "absent", NoSecret)

\* the provider's deliveries carry its signature and find the secret set;
\* every other combination of header and secret is tried on the probe bodies
WebhookReq ==
    \E body \in Events :
      \E header \in Headers(body), pick \in Picks(payments, body),
         webhookSecret \in SecretSettings :
        /\ \/ /\ header = {Sign(body, ProviderSecret)} /\ webhookSecret = ProviderSecret
              /\ body.charge \in IssuedIds
           \/ body \in ProbeEvents
        /\ LET r == Webhook(payments, bookings, webhookSecret, header, body, pick)
           IN /\ Commit(r)
              /\ last' = Served("webhook", r.code, pick, NoAmount,
                                VerifiedType(webhookSecret, header, body),
                                SigState(header, body), webhookSecret)

\* a delivery of the provider about a payment that exists, during which the
\* first or the last storage call of the handler fails
WebhookStorageFailureReq ==
    \E body \in HandledEvents :
      \E pick \in Picks(payments, body), failAt \in DbCallSteps :
        /\ pick # NoPayment
        /\ failAt \in {1, DbCalls(payments, bookings, body, pick)}
        /\ LET r == WebhookFailing(payments, bookings, ProviderSecret,
                                   {Sign(body, ProviderSecret)}, body, pick, failAt)
           IN /\ Commit(r)
              /\ last' = Served("webhookStorageFailure", r.code, pick, NoAmount,
                                body.type, "valid", ProviderSecret)

UpdateBookingReq ==
    \E b \in BookingIds, status \in BookingStatuses \cup {NoStatus} :
        LET r == UpdateBooking(payments, bookings, bookings[b].userId, b, status)
        IN /\ Commit(r)
           /\ last' = Served("updateBooking", r.code, NoPayment, NoAmount, "none",
                             "absent", NoSecret)

CancelBookingReq ==
    \E b \in BookingIds :
        LET r == CancelBooking(payments, bookings, bookings[b].userId, b)
        IN /\ Commit(r)
           /\ last' = Served("cancelBooking", r.code, NoPayment, NoAmount, "none",
                             "absent", NoSecret)

Next ==
    \/ CreatePaymentReq
    \/ UpdatePaymentStatusReq
    \/ RefundReq
    \/ WebhookReq
    \/ WebhookStorageFailureReq
    \/ UpdateBookingReq
    \/ CancelBookingReq

Spec == Init /\ [][Next]_vars

----------------------------------------------------------------------------
(* Bookings, their line items and the catalog: routes/bookings.ts and the  *)
(* activity update of routes/activities.ts                                 *)

----------------------------------------------------------------------------
(* GET /api/bookings/:id : the payment summary of the booking details *)

\* paymentsData.some((p) => p.paymentStatus is one of statuses)
HasPaymentIn(ps, b, statuses) ==
    \E i \in 1..Len(ps) : ps[i].bookingId = b /\ ps[i].status \in statuses

\* variant: a failed payment is looked for before an in-flight one
PaymentSummaryFailedFirst(ps, bs, b) ==
    [totalPaid |-> TotalPaid(ps, b),
     paymentStatus |->
        IF TotalPaid(ps, b) >= bs[b].totalPrice
        THEN (IF HasPaymentIn(ps, b, {"refunded", "partially_refunded"})
              THEN "refunded" ELSE "paid")
        ELSE IF TotalPaid(ps, b) > 0 THEN "partially_paid"
        ELSE IF HasPaymentIn(ps, b, {"failed"}) THEN "failed"
        ELSE IF HasPaymentIn(ps, b, {"pending", "processing"}) THEN "pending"
        ELSE "unpaid"]

\* totalPaid and paymentStatus of the response's paymentSummary
PaymentSummary(ps, bs, b) ==
    [totalPaid |-> TotalPaid(ps, b),
     paymentStatus |->
        IF TotalPaid(ps, b) >= bs[b].totalPrice
        THEN (IF HasPaymentIn(ps, b, {"refunded", "partially_refunded"})
              THEN "refunded" ELSE "paid")
        ELSE IF TotalPaid(ps, b) > 0 THEN "partially_paid"
        ELSE IF HasPaymentIn(ps, b, {"pending", "processing"}) THEN "pending"
        ELSE IF HasPaymentIn(ps, b, {"failed"}) THEN "failed"
        ELSE "unpaid"]

BookingResult(bs, its, code) == [bookings |-> bs, items |-> its, code |-> code]

\* activitiesData.reduce((sum, activity) => sum + Number(activity.price), 0)
RECURSIVE SumPrices(_, _)
SumPrices(cat, acts) ==
    IF acts = {} THEN 0
    ELSE LET a == CHOOSE x \in acts : TRUE
         IN cat[a] + SumPrices(cat, acts \ {a})

\* the booking row createBooking inserts; packageData is fetched and not used
\* for the price
NewBooking(cat, user, acts) ==
    [status |-> "pending", totalPrice |-> SumPrices(cat, acts), userId |-> user]

\* the checks of createBooking before its inserts; 0 when all pass
CreateBookingRejected(cat, pkg, acts) ==
    IF acts = {} THEN 400
    ELSE IF pkg # NoPackage /\ pkg \notin Packages THEN 404
    ELSE IF ~(acts \subseteq DOMAIN cat) THEN 404
    ELSE IF pkg # NoPackage /\ ~(acts \subseteq PackageActivities[pkg]) THEN 400
    ELSE 0

\* POST /api/bookings
CreateBooking(bs, its, cat, user, b, pkg, acts) ==
    IF CreateBookingRejected(cat, pkg, acts) # 0
    THEN BookingResult(bs, its, CreateBookingRejected(cat, pkg, acts))
    ELSE BookingResult(
            bs @@ (b :> NewBooking(cat, user, acts)),
            its @@ [k \in {b} \X acts |-> LineItem(cat[k[2]], NoTime)],
            201)

\* POST /api/bookings when the insert of the line items fails: the booking
\* row is already written, nothing rolls it back, and the route answers 500
CreateBookingFailing(bs, its, cat, user, b, pkg, acts) ==
    IF CreateBookingRejected(cat, pkg, acts) # 0
    THEN BookingResult(bs, its, CreateBookingRejected(cat, pkg, acts))
    ELSE BookingResult(bs @@ (b :> NewBooking(cat, user, acts)), its, 500)

\* variant: the booking's total is left as createBooking set it
AddActivityKeepsTotal(bs, its, cat, user, b, a, scheduledAt) ==
    IF b \notin DOMAIN bs THEN BookingResult(bs, its, 404)
    ELSE IF bs[b].userId # user THEN BookingResult(bs, its, 403)
    ELSE IF bs[b].status = "cancelled" THEN BookingResult(bs, its, 400)
    ELSE IF a \notin DOMAIN cat THEN BookingResult(bs, its, 404)
    ELSE IF <<b, a>> \in DOMAIN its THEN BookingResult(bs, its, 400)
    ELSE BookingResult(bs, its @@ (<<b, a>> :> LineItem(cat[a], scheduledAt)), 201)

\* POST /api/bookings/:id/activities
AddActivity(bs, its, cat, user, b, a, scheduledAt) ==
    IF b \notin DOMAIN bs THEN BookingResult(bs, its, 404)
    ELSE IF bs[b].userId # user THEN BookingResult(bs, its, 403)
    ELSE IF bs[b].status = "cancelled" THEN BookingResult(bs, its, 400)
    ELSE IF a \notin DOMAIN cat THEN BookingResult(bs, its, 404)
    ELSE IF <<b, a>> \in DOMAIN its THEN BookingResult(bs, its, 400)
    ELSE BookingResult([bs EXCEPT ![b].totalPrice = @ + cat[a]],
                       its @@ (<<b, a>> :> LineItem(cat[a], scheduledAt)),
                       201)

\* PATCH /api/bookings/:id/activities/:activityId with a scheduledAt
UpdateBookingActivity(bs, its, user, b, a, scheduledAt) ==
    IF b \notin DOMAIN bs THEN BookingResult(bs, its, 404)
    ELSE IF bs[b].userId # user THEN BookingResult(bs, its, 403)
    ELSE IF <<b, a>> \notin DOMAIN its THEN BookingResult(bs, its, 404)
    ELSE BookingResult(bs, [its EXCEPT ![<<b, a>>].scheduledAt = scheduledAt], 200)

\* PATCH /api/bookings/:id/activities/:activityId/guide, by an admin
AssignGuide(bs, its, b, a, guideId) ==
    IF b \notin DOMAIN bs THEN BookingResult(bs, its, 404)
    ELSE IF <<b, a>> \notin DOMAIN its THEN BookingResult(bs, its, 404)
    ELSE IF guideId \notin Guides THEN BookingResult(bs, its, 404)
    ELSE BookingResult(bs, [its EXCEPT ![<<b, a>>].guideId = guideId], 200)

NoPrice == -1          \* the optional body field "price" left out

\* variant: a price change is carried over to the line items already sold
UpdateActivityRepricesItems(cat, its, a, price) ==
    IF a \notin DOMAIN cat THEN [catalog |-> cat, items |-> its, code |-> 404]
    ELSE IF price = NoPrice THEN [catalog |-> cat, items |-> its, code |-> 200]
    ELSE [catalog |-> [cat EXCEPT ![a] = price],
          items |-> [k \in DOMAIN its |->
                        IF k[2] = a THEN [its[k] EXCEPT !.priceAtBooking = price]
                        ELSE its[k]],
          code |-> 200]

\* PATCH /api/activities/:id, by an admin
UpdateActivity(cat, its, a, price) ==
    IF a \notin DOMAIN cat THEN [catalog |-> cat, items |-> its, code |-> 404]
    ELSE IF price = NoPrice THEN [catalog |-> cat, items |-> its, code |-> 200]
    ELSE [catalog |-> [cat EXCEPT ![a] = price], items |-> its, code |-> 200]

----------------------------------------------------------------------------
(* Requests about bookings and the catalog, served one after the other,    *)
(* from before the booking exists                                          *)

Times == {"t1"}

NoBookings == [b \in {} |-> NoStatus]
NoItems == [k \in {} |-> NoTime]
NoDates == [b \in {} |-> DefaultDates]

BookingInit ==
    /\ bookings = NoBookings
    /\ items = NoItems
    /\ catalog = InitialCatalog
    /\ payments = <<>>
    /\ last = Served("none", 0, NoPayment, NoAmount, "none", "absent", NoSecret)
    /\ served = 0
    /\ slots = [s \in 1..2 |-> Idle]
    /\ base = [payments |-> <<>>, bookings |-> bookings]
    /\ dates = NoDates
    /\ outbox = {}
    /\ faults = 0

\* the dates of the bookings that exist; a booking created here has the
\* default dates
DatesAfter(bs) ==
    [b \in DOMAIN bs |-> IF b \in DOMAIN dates THEN dates[b] ELSE DefaultDates]

BookingCommit(op, r) ==
    /\ served < MaxRequests
    /\ served' = served + 1
    /\ bookings' = r.bookings
    /\ items' = r.items
    /\ last' = Served(op, r.code, NoPayment, NoAmount, "none", "absent", NoSecret)
    /\ dates' = DatesAfter(r.bookings)
    /\ UNCHANGED <<payments, slots, base, catalog, outbox, faults>>

PackageInputs == Packages \cup {NoPackage, UnknownPackage}

CreateBookingReq ==
    \E b \in BookingIds \ DOMAIN bookings, pkg \in PackageInputs :
      \E acts \in SUBSET (ActivityIds \cup {UnknownActivity}) :
        BookingCommit("createBooking",
                      CreateBooking(bookings, items, catalog, Owner, b, pkg, acts))

\* a createBooking that passes its checks and whose second insert fails
CreateBookingStorageFailureReq ==
    \E b \in BookingIds \ DOMAIN bookings :
      \E acts \in SUBSET ActivityIds :
        /\ CreateBookingRejected(catalog, NoPackage, acts) = 0
        /\ BookingCommit("createBookingStorageFailure",
                         CreateBookingFailing(bookings, items, catalog, Owner, b,
                                              NoPackage, acts))

AddActivityReq ==
    \E b \in DOMAIN bookings, a \in ActivityIds \cup {UnknownActivity},
       scheduledAt \in Times \cup {NoTime} :
        BookingCommit("addActivity",
                      AddActivity(bookings, items, catalog, bookings[b].userId, b, a,
                                  scheduledAt))

UpdateBookingActivityReq ==
    \E b \in DOMAIN bookings, a \in ActivityIds, scheduledAt \in Times :
        BookingCommit("updateBookingActivity",
                      UpdateBookingActivity(bookings, items, bookings[b].userId, b, a,
                                            scheduledAt))

AssignGuideReq ==
    \E b \in DOMAIN bookings, a \in ActivityIds, guideId \in Guides :
        BookingCommit("assignGuide", AssignGuide(bookings, items, b, a, guideId))

UpdateActivityReq ==
    \E a \in ActivityIds, price \in CatalogPrices \cup {NoPrice} :
        LET r == UpdateActivity(catalog, items, a, price)
        IN /\ served < MaxRequests
           /\ served' = served + 1
           /\ catalog' = r.catalog
           /\ items' = r.items
           /\ last' = Served("updateActivity", r.code, NoPayment, NoAmount, "none",
                             "absent", NoSecret)
           /\ UNCHANGED <<bookings, payments, slots, base, dates, outbox, faults>>

BookingNext ==
    \/ CreateBookingReq
    \/ CreateBookingStorageFailureReq
    \/ AddActivityReq
    \/ UpdateBookingActivityReq
    \/ AssignGuideReq
    \/ UpdateActivityReq
    \/ BookingIds \subseteq DOMAIN bookings /\ Next

BookingSpec == BookingInit /\ [][BookingNext]_vars

----------------------------------------------------------------------------
(* The dates of a booking: createBooking and updateBooking, as far as they *)
(* validate and write startDate and endDate                                *)

\* createBookingSchema's refine: new Date(endDate) > new Date(startDate)
ValidCreateDates(start, end) == end > start

\* updateBookingSchema's refine: the dates are compared when both are given
ValidUpdateDates(start, end) == (start # NoDate /\ end # NoDate) => end > start

\* PATCH /api/bookings/:id with startDate, endDate or both: the checks are
\* those of UpdateBooking, and each date given is written
UpdateBookingDates(ds, bs, user, b, start, end) ==
    IF ~ValidUpdateDates(start, end) THEN [dates |-> ds, code |-> 400]
    ELSE IF UpdateBooking(<<>>, bs, user, b, NoStatus).code # 200
         THEN [dates |-> ds, code |-> UpdateBooking(<<>>, bs, user, b, NoStatus).code]
    ELSE [dates |-> [ds EXCEPT ![b] =
                        [startDate |-> IF start # NoDate THEN start ELSE @.startDate,
                         endDate |-> IF end # NoDate THEN end ELSE @.endDate]],
          code |-> 200]

\* createBooking of the booked activity with the dates of the body
CreateBookingDatesReq ==
    \E b \in BookingIds \ DOMAIN bookings, start \in Days, end \in Days :
        LET r == IF ValidCreateDates(start, end)
                 THEN CreateBooking(bookings, items, catalog, Owner, b, NoPackage,
                                    {BookedActivity})
                 ELSE BookingResult(bookings, items, 400)
        IN /\ served < MaxRequests
           /\ served' = served + 1
           /\ bookings' = r.bookings
           /\ items' = r.items
           /\ dates' = IF r.code = 201
                       THEN dates @@ (b :> [startDate |-> start, endDate |-> end])
                       ELSE dates
           /\ last' = Served("createBooking", r.code, NoPayment, NoAmount, "none",
                             "absent", NoSecret)
           /\ UNCHANGED <<payments, slots, base, catalog, outbox, faults>>

UpdateBookingDatesReq ==
    \E b \in DOMAIN bookings, start \in Days \cup {NoDate}, end \in Days \cup {NoDate} :
        LET r == UpdateBookingDates(dates, bookings, bookings[b].userId, b, start, end)
        IN /\ served < MaxRequests
           /\ served' = served + 1
           /\ dates' = r.dates
           /\ last' = Served("updateBookingDates", r.code, NoPayment, NoAmount, "none",
                             "absent", NoSecret)
           /\ UNCHANGED <<bookings, payments, slots, base, catalog, items, outbox,
                          faults>>

DatesNext ==
    \/ CreateBookingDatesReq
    \/ UpdateBookingDatesReq
    \/ BookingIds \subseteq DOMAIN bookings /\ UpdateBookingReq
    \/ BookingIds \subseteq DOMAIN bookings /\ CancelBookingReq

DatesSpec == BookingInit /\ [][DatesNext]_vars

----------------------------------------------------------------------------
(* The provider's deliveries of payment_intent.succeeded: an event stays   *)
(* owed until a delivery of it is answered 200, and storage calls fail a   *)
(* bounded number of times                                                 *)

DeliveryInit ==
    /\ bookings \in [BookingIds -> [status : {"pending"},
                                    totalPrice : BookingTotals,
                                    userId : {Owner}]]
    /\ payments = <<>>
    /\ last = Served("none", 0, NoPayment, NoAmount, "none", "absent", NoSecret)
    /\ served = 0
    /\ slots = [s \in 1..2 |-> Idle]
    /\ base = [payments |-> <<>>, bookings |-> bookings]
    /\ dates = [b \in BookingIds |-> DefaultDates]
    /\ catalog = InitialCatalog
    /\ items = [k \in {<<b, BookedActivity>> : b \in BookingIds} |->
                    LineItem(catalog[BookedActivity], NoTime)]
    /\ outbox = {}
    /\ faults = MaxFaults

\* the customer pays a pending Stripe payment: the provider owes the event
EmitSucceeded ==
    \E e \in SucceededEvents :
        /\ e.intent \in PaymentIds
        /\ payments[e.intent].provider = "stripe"
        /\ payments[e.intent].status = "pending"
        /\ e \notin outbox
        /\ outbox' = outbox \cup {e}
        /\ UNCHANGED <<bookings, payments, last, served, slots, base, catalog, items,
                       dates, faults>>

\* what a delivery leaves owed: the provider drops the event on a 200 and
\* redelivers it otherwise
StillOwed(e, code) == IF code = 200 THEN outbox \ {e} ELSE outbox

\* a delivery of an owed event during which storage works
DeliverReq ==
    \E e \in outbox : \E pick \in Picks(payments, e) :
        LET r == Webhook(payments, bookings, ProviderSecret, {Sign(e, ProviderSecret)},
                         e, pick)
        IN /\ payments' = r.payments
           /\ bookings' = r.bookings
           /\ outbox' = StillOwed(e, r.code)
           /\ last' = Served("webhook", r.code, pick, NoAmount, e.type, "valid",
                             ProviderSecret)
           /\ UNCHANGED <<served, slots, base, catalog, items, dates, faults>>

\* a delivery of an owed event during which one storage call of the handler
\* fails
DeliverFailingReq ==
    \E e \in outbox : \E pick \in Picks(payments, e), failAt \in DbCallSteps :
        /\ faults > 0
        /\ failAt <= DbCalls(payments, bookings, e, pick)
        /\ LET r == WebhookFailing(payments, bookings, ProviderSecret,
                                   {Sign(e, ProviderSecret)}, e, pick, failAt)
           IN /\ payments' = r.payments
              /\ bookings' = r.bookings
              /\ outbox' = StillOwed(e, r.code)
              /\ faults' = faults - 1
              /\ last' = Served("webhookStorageFailure", r.code, pick, NoAmount, e.type,
                                "valid", ProviderSecret)
              /\ UNCHANGED <<served, slots, base, catalog, items, dates>>

DeliveryNext ==
    \/ CreatePaymentReq
    \/ EmitSucceeded
    \/ DeliverReq
    \/ DeliverFailingReq

\* the provider keeps redelivering what it is owed
DeliverySpec == DeliveryInit /\ [][DeliveryNext]_vars /\ WF_vars(DeliverReq)

----------------------------------------------------------------------------
(* Two overlapping requests.  Every awaited database call of a handler is  *)
(* one step; what a handler read stays in its slot until it responds.      *)

Slots == 1..2

Running(s) == slots[s].kind # "idle" /\ slots[s].pc # "done"
Quiet == \A s \in Slots : slots[s].kind = "idle"

\* slot 1 opens a pair, slot 2 joins while slot 1 is still being served
MayStart(s) ==
    /\ served < MaxRequests
    /\ slots[s].kind = "idle"
    /\ IF s = 1 THEN Quiet /\ served + 1 < MaxRequests ELSE Running(1)

Begin(s, req) ==
    /\ MayStart(s)
    /\ slots' = [slots EXCEPT ![s] = req]
    /\ served' = served + 1
    /\ base' = IF s = 1 THEN [payments |-> payments, bookings |-> bookings] ELSE base
    /\ last' = Served("none", 0, NoPayment, NoAmount, "none", "absent", NoSecret)
    /\ UNCHANGED <<payments, bookings, catalog, items, dates, outbox, faults>>

InFlightCreates == Cardinality({s \in Slots : slots[s].kind = "create" /\ Running(s)})

StartCreate(s) ==
    /\ Len(payments) + InFlightCreates < MaxPayments
    /\ \E in \in CreateInputs :
        Begin(s, [Idle EXCEPT !.kind = "create", !.pc = "read", !.b = in.b,
                              !.amount = in.amount, !.provider = in.provider,
                              !.gatewayOk = in.gatewayOk])

StartUpdate(s) ==
    \E pid \in PaymentIds, newStatus \in PaymentStatuses, patch \in MetadataPatches :
        Begin(s, [Idle EXCEPT !.kind = "update", !.pc = "read", !.pid = pid,
                              !.newStatus = newStatus, !.patch = patch])

StartRefund(s) ==
    \E pid \in PaymentIds, amount \in AmountInputs :
        Begin(s, [Idle EXCEPT !.kind = "refund", !.pc = "read", !.pid = pid,
                              !.amount = amount])

\* a verified payment_intent.succeeded event enters handlePaymentSuccess
StartSucceeded(s) ==
    \E e \in SucceededEvents :
        Begin(s, [Idle EXCEPT !.kind = "succeeded", !.pc = "lookup", !.intent = e.intent])

Step(s, slot) ==
    /\ slots' = [slots EXCEPT ![s] = slot]
    /\ UNCHANGED <<last, served, base, catalog, items, dates, outbox, faults>>

Respond(slot, code) == [slot EXCEPT !.pc = "done", !.code = code]

\* createPayment: select the booking, check it, create the intent
CreateRead(s) ==
    LET slot == slots[s]
        booking == bookings[slot.b]
        code == IF ~ValidCreatePaymentBody(slot.amount) THEN 400
                ELSE IF booking.status = "cancelled" THEN 400
                ELSE IF ~AmountAccepted(PaymentAmount(slot.amount, booking), booking) THEN 400
                ELSE IF slot.provider = "stripe" /\ ~slot.gatewayOk THEN 500
                ELSE 0
    IN /\ slot.kind = "create" /\ slot.pc = "read"
       /\ Step(s, IF code # 0 THEN Respond(slot, code)
                  ELSE [slot EXCEPT !.pc = "insert",
                                    !.resolved = PaymentAmount(slot.amount, booking)])
       /\ UNCHANGED <<payments, bookings>>

\* createPayment: insert the payment row
CreateInsert(s) ==
    LET slot == slots[s]
    IN /\ slot.kind = "create" /\ slot.pc = "insert"
       /\ payments' = Append(payments,
                             NewPayment(payments, slot.b, slot.resolved, slot.provider))
       /\ Step(s, [Respond(slot, 201) EXCEPT !.pid = Len(payments) + 1])
       /\ UNCHANGED bookings

\* updatePaymentStatus: select the payment joined with its booking
UpdateRead(s) ==
    LET slot == slots[s]
    IN /\ slot.kind = "update" /\ slot.pc = "read"
       /\ Step(s, [slot EXCEPT !.pc = "writePayment", !.row = payments[slot.pid],
                               !.bstatus = bookings[payments[slot.pid].bookingId].status])
       /\ UNCHANGED <<payments, bookings>>

\* updatePaymentStatus: update the payment; the metadata written is the one
\* read, merged with the patch
UpdateWritePayment(s) ==
    LET slot == slots[s]
    IN /\ slot.kind = "update" /\ slot.pc = "writePayment"
       /\ payments' = [payments EXCEPT ![slot.pid].status = slot.newStatus,
                                       ![slot.pid].refunds =
                                           MergeMetadata(slot.row.refunds, slot.patch)]
       /\ Step(s, IF BookingAfterStatusUpdate(slot.newStatus, slot.bstatus) # slot.bstatus
                  THEN [slot EXCEPT !.pc = "writeBooking"]
                  ELSE Respond(slot, 200))
       /\ UNCHANGED bookings

\* updatePaymentStatus: update the booking as decided on the status read
UpdateWriteBooking(s) ==
    LET slot == slots[s]
    IN /\ slot.kind = "update" /\ slot.pc = "writeBooking"
       /\ bookings' = SetBookingStatus(bookings, slot.row.bookingId,
                                       BookingAfterStatusUpdate(slot.newStatus, slot.bstatus))
       /\ Step(s, Respond(slot, 200))
       /\ UNCHANGED payments

\* refund: select the payment joined with its booking, check it, call the
\* gateway
RefundRead(s) ==
    LET slot == slots[s]
        row == payments[slot.pid]
        code == IF ~ValidRefundBody(slot.amount) THEN 400
                ELSE IF ~Refundable(row.status) THEN 400
                ELSE IF ~RefundAmountAccepted(RefundAmount(slot.amount, row), row) THEN 400
                ELSE IF row.provider = "stripe" /\ row.paymentIntentId = NoIntent THEN 400
                ELSE 0
    IN /\ slot.kind = "refund" /\ slot.pc = "read"
       /\ Step(s, IF code # 0 THEN Respond(slot, code)
                  ELSE [slot EXCEPT !.pc = "writePayment", !.row = row,
                                    !.resolved = RefundAmount(slot.amount, row),
                                    !.bstatus = bookings[row.bookingId].status])
       /\ UNCHANGED <<payments, bookings>>

\* refund: update the payment; the refund record is appended to the history
\* read
RefundWritePayment(s) ==
    LET slot == slots[s]
        full == IsFullRefund(slot.resolved, slot.row.amount)
    IN /\ slot.kind = "refund" /\ slot.pc = "writePayment"
       /\ payments' = [payments EXCEPT ![slot.pid].status = RefundedStatus(full),
                                       ![slot.pid].refunds =
                                           Append(slot.row.refunds, slot.resolved)]
       /\ Step(s, IF BookingAfterRefund(full, slot.bstatus) # slot.bstatus
                  THEN [slot EXCEPT !.pc = "writeBooking"]
                  ELSE Respond(slot, 200))
       /\ UNCHANGED bookings

\* refund: cancel the booking as decided on the status read
RefundWriteBooking(s) ==
    LET slot == slots[s]
    IN /\ slot.kind = "refund" /\ slot.pc = "writeBooking"
       /\ bookings' = SetBookingStatus(bookings, slot.row.bookingId, "cancelled")
       /\ Step(s, Respond(slot, 200))
       /\ UNCHANGED payments

\* handlePaymentSuccess: select the payment by its intent id
SucceededLookup(s) ==
    LET slot == slots[s]
    IN /\ slot.kind = "succeeded" /\ slot.pc = "lookup"
       /\ \E pick \in Picks(payments, [type |-> "payment_intent.succeeded",
                                       intent |-> slot.intent]) :
            Step(s, IF pick = NoPayment THEN Respond(slot, 200)
                    ELSE [slot EXCEPT !.pc = "writePayment", !.pid = pick,
                                      !.row = payments[pick]])
       /\ UNCHANGED <<payments, bookings>>

\* handlePaymentSuccess: mark the payment completed
SucceededWritePayment(s) ==
    LET slot == slots[s]
    IN /\ slot.kind = "succeeded" /\ slot.pc = "writePayment"
       /\ payments' = [payments EXCEPT ![slot.pid].status = "completed",
                                       ![slot.pid].transactionId = slot.intent]
       /\ Step(s, [slot EXCEPT !.pc = "readPayments"])
       /\ UNCHANGED bookings

\* variant: the completed payments are summed as they were when the pair
\* began, with the handler's own payment counted
SucceededReadPaymentsStale(s) ==
    LET slot == slots[s]
    IN /\ slot.kind = "succeeded" /\ slot.pc = "readPayments"
       /\ Step(s, [slot EXCEPT !.pc = "readBooking",
                               !.total = TotalPaid([base.payments EXCEPT
                                                       ![slot.pid].status = "completed"],
                                                   slot.row.bookingId)])
       /\ UNCHANGED <<payments, bookings>>

\* handlePaymentSuccess: select the booking's payments and sum the completed
SucceededReadPayments(s) ==
    LET slot == slots[s]
    IN /\ slot.kind = "succeeded" /\ slot.pc = "readPayments"
       /\ Step(s, [slot EXCEPT !.pc = "readBooking",
                               !.total = TotalPaid(payments, slot.row.bookingId)])
       /\ UNCHANGED <<payments, bookings>>

\* handlePaymentSuccess: select the booking and decide
SucceededReadBooking(s) ==
    LET slot == slots[s]
        booking == bookings[slot.row.bookingId]
    IN /\ slot.kind = "succeeded" /\ slot.pc = "readBooking"
       /\ Step(s, IF BookingAfterSuccess(slot.total, booking) # booking.status
                  THEN [slot EXCEPT !.pc = "writeBooking", !.bstatus = booking.status]
                  ELSE Respond([slot EXCEPT !.bstatus = booking.status], 200))
       /\ UNCHANGED <<payments, bookings>>

\* handlePaymentSuccess: confirm the booking
SucceededWriteBooking(s) ==
    LET slot == slots[s]
    IN /\ slot.kind = "succeeded" /\ slot.pc = "writeBooking"
       /\ bookings' = SetBookingStatus(bookings, slot.row.bookingId, "confirmed")
       /\ Step(s, Respond(slot, 200))
       /\ UNCHANGED payments

BothDone == \A s \in Slots : slots[s].pc = "done"

\* both responses are out: the slots are free again
Finish ==
    /\ BothDone
    /\ slots' = [s \in Slots |-> Idle]
    /\ UNCHANGED <<payments, bookings, last, served, base, catalog, items, dates, outbox, faults>>

ConcNext ==
    \/ Quiet /\ Next
    \/ \E s \in Slots : StartCreate(s) \/ StartUpdate(s) \/ StartRefund(s) \/ StartSucceeded(s)
    \/ \E s \in Slots : CreateRead(s) \/ CreateInsert(s)
    \/ \E s \in Slots : UpdateRead(s) \/ UpdateWritePayment(s) \/ UpdateWriteBooking(s)
    \/ \E s \in Slots : RefundRead(s) \/ RefundWritePayment(s) \/ RefundWriteBooking(s)
    \/ \E s \in Slots : \/ SucceededLookup(s) \/ SucceededWritePayment(s)
                        \/ SucceededReadPayments(s) \/ SucceededReadBooking(s)
                        \/ SucceededWriteBooking(s)
    \/ Finish

ConcSpec == Init /\ [][ConcNext]_vars

\* payments are created one after the other; then deliveries of
\* payment_intent.succeeded overlap, and nothing else is served
SucceededPairNext ==
    \/ Quiet /\ CreatePaymentReq
    \/ \E s \in Slots : StartSucceeded(s)
    \/ \E s \in Slots : \/ SucceededLookup(s) \/ SucceededWritePayment(s)
                        \/ SucceededReadPayments(s) \/ SucceededReadBooking(s)
                        \/ SucceededWriteBooking(s)
    \/ Finish

SucceededPairSpec == Init /\ [][SucceededPairNext]_vars

----------------------------------------------------------------------------
(* POST /api/bookings/:id/activities, one step per awaited database call *)

StartAddActivity(s) ==
    \E b \in BookingIds, a \in ActivityIds \cup {UnknownActivity},
       scheduledAt \in Times \cup {NoTime} :
        Begin(s, [Idle EXCEPT !.kind = "addActivity", !.pc = "readBooking", !.b = b,
                              !.activity = a, !.scheduledAt = scheduledAt])

AddStep(s, slot) ==
    /\ slots' = [slots EXCEPT ![s] = slot]
    /\ UNCHANGED <<payments, last, served, base, catalog, dates, outbox, faults>>

\* select the booking; its totalPrice is kept for the update at the end
AddReadBooking(s) ==
    LET slot == slots[s]
    IN /\ slot.kind = "addActivity" /\ slot.pc = "readBooking"
       /\ AddStep(s, IF slot.b \notin DOMAIN bookings THEN Respond(slot, 404)
                     ELSE IF bookings[slot.b].userId # Owner THEN Respond(slot, 403)
                     ELSE IF bookings[slot.b].status = "cancelled" THEN Respond(slot, 400)
                     ELSE [slot EXCEPT !.pc = "readActivity",
                                       !.total = bookings[slot.b].totalPrice])
       /\ UNCHANGED <<bookings, items>>

\* select the activity; its price is the snapshot
AddReadActivity(s) ==
    LET slot == slots[s]
    IN /\ slot.kind = "addActivity" /\ slot.pc = "readActivity"
       /\ AddStep(s, IF slot.activity \notin DOMAIN catalog THEN Respond(slot, 404)
                     ELSE [slot EXCEPT !.pc = "checkDuplicate",
                                       !.resolved = catalog[slot.activity]])
       /\ UNCHANGED <<bookings, items>>

\* select a line item of the booking for the activity
AddCheckDuplicate(s) ==
    LET slot == slots[s]
    IN /\ slot.kind = "addActivity" /\ slot.pc = "checkDuplicate"
       /\ AddStep(s, IF <<slot.b, slot.activity>> \in DOMAIN items THEN Respond(slot, 400)
                     ELSE [slot EXCEPT !.pc = "insert"])
       /\ UNCHANGED <<bookings, items>>

\* the key of the row an insert adds: the primary key is a fresh id and no
\* unique index covers (booking_id, activity_id), so a second row for the
\* same booking and activity is stored, here under <<b, a, 2>>
NewItemKey(its, b, a) == IF <<b, a>> \in DOMAIN its THEN <<b, a, 2>> ELSE <<b, a>>

AddInsert(s) ==
    LET slot == slots[s]
    IN /\ slot.kind = "addActivity" /\ slot.pc = "insert"
       /\ items' = items @@ (NewItemKey(items, slot.b, slot.activity)
                                :> LineItem(slot.resolved, slot.scheduledAt))
       /\ AddStep(s, [slot EXCEPT !.pc = "writeTotal"])
       /\ UNCHANGED bookings

\* update the booking: Number(booking.totalPrice) + Number(activity.price),
\* with the booking as it was selected at the start
AddWriteTotal(s) ==
    LET slot == slots[s]
    IN /\ slot.kind = "addActivity" /\ slot.pc = "writeTotal"
       /\ bookings' = [bookings EXCEPT ![slot.b].totalPrice = slot.total + slot.resolved]
       /\ AddStep(s, Respond(slot, 201))
       /\ UNCHANGED items

\* bookings are created one after the other; then calls that add an activity
\* overlap
AddActivityPairNext ==
    \/ Quiet /\ CreateBookingReq
    \/ \E s \in Slots : StartAddActivity(s)
    \/ \E s \in Slots : \/ AddReadBooking(s) \/ AddReadActivity(s)
                        \/ AddCheckDuplicate(s) \/ AddInsert(s) \/ AddWriteTotal(s)
    \/ Finish

AddActivityPairSpec == BookingInit /\ [][AddActivityPairNext]_vars

----------------------------------------------------------------------------
(* Properties of requests served one after the other *)

Unchanged == payments' = payments /\ bookings' = bookings

RefundServed == last.op = "refund" /\ last.code = 200

\* C1: right after a successful createPayment on a booking the amounts of the
\* booking's completed payments sum to at most totalPrice, and no payment is
\* accepted that would let the completed total exceed totalPrice.
CreatePaymentKeepsCompletedWithinTotal ==
    (last.op = "createPayment" /\ last.code = 201) =>
        LET b == payments[last.pid].bookingId
        IN /\ TotalPaid(payments, b) <= bookings[b].totalPrice
           /\ TotalPaid(payments, b) + payments[last.pid].amount <= bookings[b].totalPrice

Delivered(ps, bs, e, pick) ==
    Webhook(ps, bs, ProviderSecret, {Sign(e, ProviderSecret)}, e, pick)

\* C3: delivering the same payment_intent.succeeded event twice in a row
\* leaves the payments (status, transaction id) and the bookings (status) as
\* delivering it once does, from every reachable state.
SucceededEventIdempotent ==
    \A e \in SucceededEvents : \A pick \in Picks(payments, e) :
        LET once == Delivered(payments, bookings, e, pick)
        IN \A again \in Picks(once.payments, e) :
            LET twice == Delivered(once.payments, once.bookings, e, again)
            IN twice = once

\* a delivered payment_intent.succeeded completed a payment and confirmed the
\* booking: the state a redelivery then meets
SucceededEventApplied ==
    /\ last.op = "webhook" /\ last.code = 200 /\ last.type = "payment_intent.succeeded"
    /\ last.pid # NoPayment
    /\ payments[last.pid].status = "completed"
    /\ payments[last.pid].transactionId # NoTxn
    /\ bookings[payments[last.pid].bookingId].status = "confirmed"

OthersAllFailed(pid) ==
    \A i \in PaymentIds \ {pid} :
        payments[i].bookingId = payments[pid].bookingId => payments[i].status = "failed"

\* C5: a successful refund whose amount equals the payment's amount sets the
\* payment to refunded, and when the payment is the booking's only payment or
\* the last one not failed, the booking is cancelled afterwards.
FullRefundSetsRefundedAndCancels ==
    (RefundServed /\ RefundAmount(last.amount, payments[last.pid]) = payments[last.pid].amount)
        => /\ payments[last.pid].status = "refunded"
           /\ OthersAllFailed(last.pid)
                => bookings[payments[last.pid].bookingId].status = "cancelled"

\* a full refund of a booking's last payment that is not failed was served
FullRefundServed ==
    /\ RefundServed
    /\ RefundAmount(last.amount, payments[last.pid]) = payments[last.pid].amount
    /\ OthersAllFailed(last.pid)
    /\ payments[last.pid].status = "refunded"
    /\ bookings[payments[last.pid].bookingId].status = "cancelled"

\* C6: a successful refund of less than the payment's amount sets the payment
\* to partially_refunded and leaves every booking's status as it was.
PartialRefundKeepsBooking ==
    [][(last'.op = "refund" /\ last'.code = 200 /\ last'.amount # NoAmount
        /\ last'.amount < payments[last'.pid].amount)
       => /\ payments'[last'.pid].status = "partially_refunded"
          /\ \A b \in BookingIds : bookings'[b].status = bookings[b].status]_vars

\* a partial refund was served on a payment of a confirmed booking
PartialRefundServed ==
    /\ RefundServed /\ last.amount # NoAmount
    /\ last.amount < payments[last.pid].amount
    /\ payments[last.pid].status = "partially_refunded"
    /\ bookings[payments[last.pid].bookingId].status = "confirmed"

\* C7: when the refunds served on a payment add up to the payment's amount the
\* payment is refunded and the booking cancelled, and a refund without an
\* amount refunds what remains of the payment.
CumulativeRefundCompletes ==
    RefundServed =>
        /\ TotalRefunded(payments[last.pid]) >= payments[last.pid].amount
             => /\ payments[last.pid].status = "refunded"
                /\ bookings[payments[last.pid].bookingId].status = "cancelled"
        /\ last.amount = NoAmount
             => TotalRefunded(payments[last.pid]) = payments[last.pid].amount

\* C8: a webhook request whose signature does not verify against the raw body
\* and the configured secret is answered 400 and changes no payment and no
\* booking, whatever event it carries.
InvalidSignatureRejected ==
    [][(last'.op = "webhook" /\ last'.secret # NoSecret /\ last'.sig # "valid")
       => (last'.code = 400 /\ Unchanged)]_vars

\* a request with a signature that does not verify was served while a payment
\* that its event names is pending
InvalidSignatureServed ==
    /\ last.op = "webhook" /\ last.secret # NoSecret /\ last.sig = "invalid"
    /\ last.code = 400
    /\ Len(payments) > 0 /\ payments[1].status = "pending"
    /\ payments[1].paymentIntentId # NoIntent

\* C9: every webhook request received while the secret is not configured is
\* answered 500 and changes no record.
NoSecretAlwaysServerError ==
    [][(last'.op = "webhook" /\ last'.secret = NoSecret)
       => (last'.code = 500 /\ Unchanged)]_vars

\* C9 as amended: with the secret not configured a request that carries a
\* signature header is answered 500, a request without the header is answered
\* 400, and neither changes a record.
NoSecretServerErrorWhenSigned ==
    [][(last'.op = "webhook" /\ last'.secret = NoSecret)
       => /\ last'.code = IF last'.sig = "absent" THEN 400 ELSE 500
          /\ Unchanged]_vars

\* a correctly signed request was served with the secret not configured
SignedRequestWithoutSecretServed ==
    /\ last.op = "webhook" /\ last.secret = NoSecret /\ last.sig = "valid"
    /\ last.code = 500
    /\ Len(payments) > 0 /\ payments[1].status = "pending"
    /\ payments[1].paymentIntentId # NoIntent

\* C10: a correctly signed event of a type other than the four handled ones
\* is answered 200 and changes no payment and no booking.
UnknownEventIgnored ==
    [][(last'.op = "webhook" /\ last'.type # "none" /\ last'.type \notin HandledEventTypes)
       => (last'.code = 200 /\ Unchanged)]_vars

\* an event of an unhandled type was served while a payment holds the charge
\* the event is about
UnknownEventServed ==
    /\ last.op = "webhook" /\ last.type = "charge.refund.updated" /\ last.code = 200
    /\ \E i \in PaymentIds : payments[i].transactionId # NoTxn
                             /\ payments[i].status = "completed"

----------------------------------------------------------------------------
(* Properties of overlapping requests *)

\* what a request in flight does when it is served alone
Alone(req, ps, bs) ==
    CASE req.kind = "create" ->
            CreatePayment(ps, bs, Owner, req.b, req.amount, req.provider, req.gatewayOk)
      [] req.kind = "update" ->
            IF req.pid \in 1..Len(ps)
            THEN UpdatePaymentStatus(ps, bs, Admin, req.pid, req.newStatus, NoTxn, req.patch)
            ELSE Result(ps, bs, 404)
      [] req.kind = "refund" ->
            IF req.pid \in 1..Len(ps)
            THEN Refund(ps, bs, Admin, req.pid, req.amount, req.gatewayOk)
            ELSE Result(ps, bs, 404)
      [] req.kind = "succeeded" ->
            LET e == [type |-> "payment_intent.succeeded", intent |-> req.intent,
                      charge |-> req.intent, refunded |-> 0]
                pick == CHOOSE k \in Picks(ps, e) : TRUE
            IN HandlePaymentSuccess(ps, bs, pick, req.intent)
      [] OTHER -> Result(ps, bs, 0)

InOrder(first, second) ==
    LET one == Alone(first, base.payments, base.bookings)
    IN Alone(second, one.payments, one.bookings)

BothCreated ==
    /\ BothDone
    /\ \A s \in Slots : slots[s].kind = "create" /\ slots[s].code = 201
    /\ slots[1].b = slots[2].b

\* C2: two overlapping createPayment calls on one booking never both insert
\* payments whose amounts, together with what was already paid, exceed the
\* booking's totalPrice.
OverlappingCreatesWithinTotal ==
    BothCreated =>
        TotalPaid(base.payments, slots[1].b) + slots[1].resolved + slots[2].resolved
            <= bookings[slots[1].b].totalPrice

WebhookMeetsAdmin(w, a) ==
    /\ BothDone
    /\ slots[w].kind = "succeeded"
    /\ slots[a].kind \in {"update", "refund"}
    /\ slots[w].pid = slots[a].pid
    /\ slots[a].code = 200

Outcome(ps, bs, pid) == <<ps[pid].status, bs[ps[pid].bookingId].status>>

\* C4: when a payment_intent.succeeded event and an admin status update or
\* refund of the same payment overlap, the payment's status and the booking's
\* status end as one of the two orders of serving them alone leaves them.
WebhookAndAdminSerialize ==
    \A w \in Slots : \A a \in Slots :
        WebhookMeetsAdmin(w, a) =>
            Outcome(payments, bookings, slots[a].pid) \in
                {Outcome(InOrder(slots[w], slots[a]).payments,
                         InOrder(slots[w], slots[a]).bookings, slots[a].pid),
                 Outcome(InOrder(slots[a], slots[w]).payments,
                         InOrder(slots[a], slots[w]).bookings, slots[a].pid)}

----------------------------------------------------------------------------
(* Properties of the webhook's event handlers *)

\* C11: a correctly signed event of a handled type whose intent id (or
\* charge id, for charge.refunded) matches no local payment is answered 200
\* and changes no payment and no booking.
UnmatchedEventAcknowledged ==
    \A e \in HandledEvents :
        Matches(payments, e) = {} =>
            LET r == Delivered(payments, bookings, e, NoPayment)
            IN r.code = 200 /\ r.payments = payments /\ r.bookings = bookings

UnmatchedEventServed ==
    /\ last.op = "webhook" /\ last.code = 200
    /\ last.type = "charge.refunded"
    /\ last.pid = NoPayment
    /\ payments # <<>>

\* C12: when a storage call fails while a handler applies a correctly signed
\* event to a payment that exists locally, whichever call it is, the request
\* is not answered 200.
StorageFailureNotAcknowledged ==
    \A e \in HandledEvents : \A pick \in Matches(payments, e) :
        \A failAt \in DbCallSteps :
            failAt <= DbCalls(payments, bookings, e, pick) =>
                WebhookFailing(payments, bookings, ProviderSecret,
                               {Sign(e, ProviderSecret)}, e, pick, failAt).code # 200

StorageFailureServed ==
    /\ last.op = "webhookStorageFailure" /\ last.code = 500
    /\ last.type = "payment_intent.succeeded"
    /\ last.pid # NoPayment
    /\ payments[last.pid].status = "completed"
    /\ bookings[payments[last.pid].bookingId].status = "pending"
    /\ TotalPaid(payments, payments[last.pid].bookingId)
           >= bookings[payments[last.pid].bookingId].totalPrice

FailureEvents == {e \in IntentEvents : e.type # "payment_intent.succeeded"}

RefundedEventSetsStatusAndCancels ==
    \A e \in ChargeEvents : \A pick \in Matches(payments, e) :
        LET r == Delivered(payments, bookings, e, pick)
            b == payments[pick].bookingId
            settled == \A i \in 1..Len(r.payments) :
                          r.payments[i].bookingId = b =>
                              r.payments[i].status \in {"refunded", "failed"}
        IN /\ r.code = 200
           /\ r.payments = [payments EXCEPT ![pick].status =
                               IF e.refunded >= payments[pick].amount * CentsPerUnit
                               THEN "refunded" ELSE "partially_refunded"]
           /\ r.bookings = [bookings EXCEPT ![b].status =
                               IF settled THEN "cancelled" ELSE @]

RefundedEventServed ==
    /\ last.op = "webhook" /\ last.code = 200
    /\ last.type = "charge.refunded"
    /\ last.pid # NoPayment
    /\ payments[last.pid].status = "partially_refunded"
    /\ bookings[payments[last.pid].bookingId].status = "confirmed"

----------------------------------------------------------------------------
(* Properties of the status fields over time *)

\* C16: once a booking's status is cancelled no step of any request, in any
\* interleaving, changes its status or its totalPrice.
CancelledIsAbsorbing ==
    [][\A b \in BookingIds :
           bookings[b].status = "cancelled" => bookings'[b] = bookings[b]]_vars

AllowedBookingMove(from, to) ==
    \/ from = "pending" /\ to = "confirmed"
    \/ from = "confirmed" /\ to = "completed"
    \/ from # "cancelled" /\ to = "cancelled"

\* C17: every change of a booking's status is pending to confirmed,
\* confirmed to completed, or a status other than cancelled to cancelled.
BookingStatusMonotonic ==
    [][\A b \in BookingIds :
           bookings'[b].status # bookings[b].status =>
               AllowedBookingMove(bookings[b].status, bookings'[b].status)]_vars

\* C18: a payment whose status is completed is never set to pending or
\* processing.
CompletedNeverReverts ==
    [][\A i \in PaymentIds :
           payments[i].status = "completed" =>
               payments'[i].status \notin {"pending", "processing"}]_vars

----------------------------------------------------------------------------
(* Properties of prices *)

ActivityAdded == last'.op = "addActivity" /\ last'.code = 201

PriceAtBookingFrozen ==
    [][/\ \A k \in DOMAIN items' \ DOMAIN items :
              items'[k].priceAtBooking = catalog[k[2]]
       /\ \A k \in DOMAIN items :
              /\ k \in DOMAIN items'
              /\ items'[k].priceAtBooking = items[k].priceAtBooking]_vars

PriceChangedAfterBooking ==
    /\ last.op = "updateActivity" /\ last.code = 200
    /\ \E k \in DOMAIN items : items[k].priceAtBooking # catalog[k[2]]
    /\ \E k \in DOMAIN items : items[k].guideId # NoGuide

----------------------------------------------------------------------------
(* Properties of createBooking *)

BaseFee(pkg) == IF pkg \in Packages THEN PackageBasePrice[pkg] ELSE 0

\* C21: a createBooking that succeeds sets totalPrice to the sum of the current
\* catalog prices of the requested activities plus the base fee of the package
\* named, if one is named.
CreateBookingTotalIncludesBaseFee ==
    \A b \in BookingIds \ DOMAIN bookings, pkg \in PackageInputs :
      \A acts \in SUBSET ActivityIds :
        LET r == CreateBooking(bookings, items, catalog, Owner, b, pkg, acts)
        IN r.code = 201 =>
             r.bookings[b].totalPrice = SumPrices(catalog, acts) + BaseFee(pkg)

\* C22: in every reachable state, also after a storage failure between the
\* two inserts of createBooking, a booking that exists has line items.
BookingHasItsLineItems ==
    \A b \in DOMAIN bookings : \E a \in ActivityIds : <<b, a>> \in DOMAIN items

----------------------------------------------------------------------------
(* Properties of the payment summary *)

\* the payments of booking b that hold one of the statuses
PaymentsOf(b, statuses) ==
    SelectSeq(payments, LAMBDA p : p.bookingId = b /\ p.status \in statuses)

CompletedAmounts(b) ==
    [i \in 1..Len(PaymentsOf(b, {"completed"})) |-> PaymentsOf(b, {"completed"})[i].amount]

\* C23: for every booking, paymentSummary reports totalPaid as the sum of the
\* amounts of its completed payments, and the status by priority: paid or
\* refunded when totalPaid >= totalPrice (refunded when a refunded or partially
\* refunded payment exists), partially_paid when 0 < totalPaid < totalPrice,
\* else pending when a pending or processing payment exists, else failed when
\* a failed payment exists, else unpaid.
PaymentSummaryByPriority ==
    \A b \in DOMAIN bookings :
      LET s == PaymentSummary(payments, bookings, b)
          paid == SumSeq(CompletedAmounts(b))
          price == bookings[b].totalPrice
          refund == PaymentsOf(b, {"refunded", "partially_refunded"}) # <<>>
          inFlight == PaymentsOf(b, {"pending", "processing"}) # <<>>
          failed == PaymentsOf(b, {"failed"}) # <<>>
      IN /\ s.totalPaid = paid
         /\ s.paymentStatus = "paid" <=> paid >= price /\ ~refund
         /\ s.paymentStatus = "refunded" <=> paid >= price /\ refund
         /\ s.paymentStatus = "partially_paid" <=> 0 < paid /\ paid < price
         /\ s.paymentStatus = "pending" <=> paid <= 0 /\ paid < price /\ inFlight
         /\ s.paymentStatus = "failed" <=>
                paid <= 0 /\ paid < price /\ ~inFlight /\ failed
         /\ s.paymentStatus = "unpaid" <=>
                paid <= 0 /\ paid < price /\ ~inFlight /\ ~failed

\* a booking paid in full while another of its payments is refunded
SummaryRefundedReached ==
    \E b \in DOMAIN bookings :
        /\ PaymentSummary(payments, bookings, b).paymentStatus = "refunded"
        /\ PaymentsOf(b, {"completed"}) # <<>>

\* C24: when a payment of a pending booking is marked completed, by an admin's
\* updatePaymentStatus or by the webhook, the booking stays pending with a
\* partially_paid summary while the completed total is below totalPrice, and
\* becomes confirmed when the completed total reaches totalPrice.
DepositKeepsBookingPending ==
    \A pid \in PaymentIds :
      LET b == payments[pid].bookingId
          byAdmin == UpdatePaymentStatus(payments, bookings, Admin, pid, "completed",
                                         NoTxn, NoPatch)
          byWebhook == {Delivered(payments, bookings, e, pid) :
                           e \in {x \in SucceededEvents : pid \in Matches(payments, x)}}
      IN \A r \in {byAdmin} \cup byWebhook :
           (bookings[b].status = "pending" /\ r.code = 200) =>
             IF TotalPaid(r.payments, b) < bookings[b].totalPrice
             THEN /\ r.bookings[b].status = "pending"
                  /\ PaymentSummary(r.payments, r.bookings, b).paymentStatus
                        = "partially_paid"
             ELSE r.bookings[b].status = "confirmed"

\* C25: an admin's updatePaymentStatus sets the payment to newStatus; it
\* promotes a pending booking to confirmed when newStatus is completed,
\* cancels a booking not yet cancelled when newStatus is refunded, and with
\* every other newStatus, failed included, leaves the booking's status as it is.
AdminUpdateSideEffects ==
    \A pid \in PaymentIds, newStatus \in PaymentStatuses :
      LET r == UpdatePaymentStatus(payments, bookings, Admin, pid, newStatus,
                                   NoTxn, NoPatch)
          b == payments[pid].bookingId
          before == bookings[b].status
          after == r.bookings[b].status
      IN /\ r.code = 200
         /\ r.payments[pid].status = newStatus
         /\ \A i \in PaymentIds \ {pid} : r.payments[i] = payments[i]
         /\ \A o \in DOMAIN bookings \ {b} : r.bookings[o] = bookings[o]
         /\ r.bookings[b].totalPrice = bookings[b].totalPrice
         /\ (newStatus = "completed" /\ before = "pending") => after = "confirmed"
         /\ (newStatus = "refunded" /\ before # "cancelled") => after = "cancelled"
         /\ (newStatus = "completed" /\ before # "pending") => after = before
         /\ (newStatus = "refunded" /\ before = "cancelled") => after = before
         /\ newStatus \notin {"completed", "refunded"} => after = before

\* an admin has marked a payment of a confirmed booking failed
AdminMarkedFailedServed ==
    /\ last.op = "updatePaymentStatus" /\ last.code = 200
    /\ payments[last.pid].status = "failed"
    /\ bookings[payments[last.pid].bookingId].status = "confirmed"

----------------------------------------------------------------------------
(* Properties of createPayment and refund when they reject or fail *)

\* C26: a createPayment whose call to the gateway fails is not answered 201,
\* persists no payment and changes no booking; no Stripe payment exists
\* without the intent the gateway created for it.
GatewayFailurePersistsNothing ==
    /\ \A b \in BookingIds, amount \in AmountInputs :
         LET r == CreatePayment(payments, bookings, bookings[b].userId, b, amount,
                                "stripe", FALSE)
         IN r.code # 201 /\ r.payments = payments /\ r.bookings = bookings
    /\ \A i \in PaymentIds :
         payments[i].provider = "stripe" => payments[i].paymentIntentId # NoIntent

\* a createPayment that passed every check has met a failing gateway
GatewayFailureServed ==
    /\ last.op = "createPayment" /\ last.code = 500
    /\ \E b \in DOMAIN bookings : bookings[b].status # "cancelled"

\* C27: a createPayment on a cancelled booking, with an amount <= 0 or with an
\* amount above the booking's totalPrice is rejected and creates no payment.
CreatePaymentRejectsBadRequests ==
    \A b \in BookingIds, amount \in AmountInputs, provider \in {"manual", "stripe"} :
      LET r == CreatePayment(payments, bookings, bookings[b].userId, b, amount,
                             provider, TRUE)
      IN (\/ bookings[b].status = "cancelled"
          \/ (amount # NoAmount /\ amount <= 0)
          \/ (amount # NoAmount /\ amount > bookings[b].totalPrice))
         => r.code = 400 /\ r.payments = payments /\ r.bookings = bookings

\* a createPayment has been rejected on a cancelled booking, or for its amount
\* on a booking that already has a payment
CreatePaymentRejectedServed ==
    /\ last.op = "createPayment" /\ last.code = 400
    /\ payments # <<>>

\* C28: a refund call on a payment that is neither completed nor partially
\* refunded is rejected and changes neither the payments nor the bookings.
RefundRejectedUnlessRefundable ==
    \A pid \in PaymentIds, amount \in AmountInputs, gatewayOk \in BOOLEAN :
      LET r == Refund(payments, bookings, Admin, pid, amount, gatewayOk)
      IN payments[pid].status \notin {"completed", "partially_refunded"} =>
           r.code = 400 /\ r.payments = payments /\ r.bookings = bookings

\* a refund of a payment already refunded in full has been rejected
RefundOfRefundedRejected ==
    /\ last.op = "refund" /\ last.code = 400
    /\ payments[last.pid].status = "refunded"
    /\ payments[last.pid].refunds # <<>>

\* C29: a refund call during which the gateway's refund operation fails is not
\* answered with success and leaves the payment's status and refund history
\* and the booking's status as they were.
GatewayRefundFailureCommitsNothing ==
    \A pid \in PaymentIds, amount \in AmountInputs :
      LET r == Refund(payments, bookings, Admin, pid, amount, FALSE)
      IN payments[pid].provider = "stripe" =>
           r.code # 200 /\ r.payments = payments /\ r.bookings = bookings

\* the gateway has failed the refund of a completed Stripe payment
GatewayRefundFailureServed ==
    /\ last.op = "refund" /\ last.code = 500
    /\ payments[last.pid].status = "completed"
    /\ payments[last.pid].provider = "stripe"

----------------------------------------------------------------------------
(* Properties of the refund history *)

IsPrefix(s, t) == Len(s) <= Len(t) /\ SubSeq(t, 1, Len(s)) = s

\* C30: a payment's refund history is append-only: no step of any request, in
\* any interleaving, removes or overwrites a record, and a step adds at most
\* one record, at the end.
RefundHistoryAppendOnly ==
    [][\A i \in 1..Len(payments) :
           /\ IsPrefix(payments[i].refunds, payments'[i].refunds)
           /\ Len(payments'[i].refunds) <= Len(payments[i].refunds) + 1]_vars

----------------------------------------------------------------------------
(* Properties of the cancellation rule of the two refund paths *)

\* C31: the refund endpoint and the charge.refunded webhook cancel the booking
\* only when none of the booking's payments remains completed, pending or
\* processing after the refund is recorded.
RefundPathsShareCancellationRule ==
    \A pid \in PaymentIds :
      LET b == payments[pid].bookingId
          byEndpoint == {Refund(payments, bookings, Admin, pid, a, TRUE) :
                            a \in AmountInputs}
          byWebhook == {Delivered(payments, bookings, e, pid) :
                           e \in {x \in ChargeEvents : pid \in Matches(payments, x)}}
      IN \A r \in byEndpoint \cup byWebhook :
           (r.code = 200 /\ bookings[b].status # "cancelled"
                         /\ r.bookings[b].status = "cancelled")
             => ~HasPaymentIn(r.payments, b, {"completed", "pending", "processing"})

----------------------------------------------------------------------------
(* Properties of cancelBooking *)

\* C32: cancelBooking by the owner sets a booking that is not cancelled to
\* cancelled and changes no payment; on a cancelled booking it fails and
\* changes nothing.
CancelBookingTouchesNoPayment ==
    \A b \in DOMAIN bookings :
      LET r == CancelBooking(payments, bookings, bookings[b].userId, b)
      IN /\ r.payments = payments
         /\ \A o \in DOMAIN bookings \ {b} : r.bookings[o] = bookings[o]
         /\ r.bookings[b].totalPrice = bookings[b].totalPrice
         /\ IF bookings[b].status = "cancelled"
            THEN r.code = 400 /\ r.bookings = bookings
            ELSE r.code = 200 /\ r.bookings[b].status = "cancelled"

\* a booking with a completed payment has been cancelled by its owner
PaidBookingCancelled ==
    /\ last.op = "cancelBooking" /\ last.code = 200
    /\ \E i \in PaymentIds :
        /\ payments[i].status = "completed"
        /\ bookings[payments[i].bookingId].status = "cancelled"

----------------------------------------------------------------------------
(* Properties of the dates *)

\* C39: in every reachable state every booking's endDate is later than its
\* startDate.
EndDateAfterStartDate ==
    \A b \in DOMAIN dates : dates[b].endDate > dates[b].startDate

----------------------------------------------------------------------------
(* Properties of redelivery *)

Owed(i) == \E e \in outbox : e.intent = i

FullyApplied(i) ==
    /\ i \in PaymentIds
    /\ payments[i].status = "completed"
    /\ TotalPaid(payments, payments[i].bookingId)
            >= bookings[payments[i].bookingId].totalPrice
         => bookings[payments[i].bookingId].status = "confirmed"

\* C33: when deliveries answered with another status than 200 are redelivered
\* and storage failures stop, every payment_intent.succeeded event owed for a
\* known payment is eventually applied in full: the payment is completed and
\* the booking is confirmed when the completed total reaches totalPrice.
SucceededEventEventuallyApplied ==
    \A i \in 1..MaxPayments : Owed(i) ~> FullyApplied(i)

\* a delivery failed between the payment write and the booking write: the
\* payment is completed, the booking is paid in full and still pending, and
\* the event is still owed
HalfAppliedAndOwed ==
    /\ last.op = "webhookStorageFailure" /\ last.code = 500
    /\ Owed(last.pid)
    /\ payments[last.pid].status = "completed"
    /\ TotalPaid(payments, payments[last.pid].bookingId)
            >= bookings[payments[last.pid].bookingId].totalPrice
    /\ bookings[payments[last.pid].bookingId].status = "pending"

----------------------------------------------------------------------------
(* Properties of overlapping deliveries of payment_intent.succeeded *)

\* both deliveries are answered, and they were about two payments of booking b
SucceededPairDone(b) ==
    /\ BothDone
    /\ \A s \in Slots : /\ slots[s].kind = "succeeded"
                        /\ slots[s].pid # NoPayment
                        /\ payments[slots[s].pid].bookingId = b
    /\ slots[1].pid # slots[2].pid

\* C34: when payment_intent.succeeded events for several payments of one
\* pending booking are handled concurrently and the completed amounts reach
\* totalPrice, the booking is confirmed once the handlers are done, in every
\* interleaving of their reads and writes.
ConcurrentSucceededConfirms ==
    \A b \in BookingIds :
        (/\ SucceededPairDone(b)
         /\ base.bookings[b].status = "pending"
         /\ TotalPaid(payments, b) >= bookings[b].totalPrice)
        => bookings[b].status = "confirmed"

\* two deposits, neither of which reaches totalPrice alone, were completed by
\* overlapping deliveries
DepositsCompletedTogether ==
    \E b \in BookingIds :
        /\ SucceededPairDone(b)
        /\ base.bookings[b].status = "pending"
        /\ \A s \in Slots : /\ base.payments[slots[s].pid].status = "pending"
                            /\ payments[slots[s].pid].amount < bookings[b].totalPrice
        /\ bookings[b].status = "confirmed"

----------------------------------------------------------------------------
(* Properties of confirmation and of late provider events *)

\* C35: a booking's status changes from pending to confirmed only in a step
\* after which the amounts of its completed payments sum to at least its
\* totalPrice, whichever operation is served (updateBooking by the owner,
\* admin updatePaymentStatus, webhook).
ConfirmedOnlyWhenFullyPaid ==
    [][\A b \in BookingIds :
          (bookings[b].status = "pending" /\ bookings'[b].status = "confirmed")
          => TotalPaid(payments', b) >= bookings'[b].totalPrice]_vars

\* C36: once a payment is refunded or partially_refunded, no webhook event
\* (payment_intent.succeeded, payment_intent.payment_failed or
\* payment_intent.canceled, redelivered or late) sets its status to completed
\* or failed.
RefundedNotReopenedByWebhook ==
    [][\A i \in DOMAIN payments :
          (/\ payments[i].status \in {"refunded", "partially_refunded"}
           /\ last'.op \in {"webhook", "webhookStorageFailure"})
          => payments'[i].status \notin {"completed", "failed"}]_vars

\* C37: the amounts of a payment's refund history never sum to more than the
\* payment's amount.
RefundsWithinPaymentAmount ==
    \A i \in DOMAIN payments : TotalRefunded(payments[i]) <= payments[i].amount

----------------------------------------------------------------------------
(* Properties of totalPrice and the line items *)

\* the sum of priceAtBooking over the rows keys of its
RECURSIVE SumItems(_, _)
SumItems(its, keys) ==
    IF keys = {} THEN 0
    ELSE LET k == CHOOSE x \in keys : TRUE
         IN its[k].priceAtBooking + SumItems(its, keys \ {k})

ItemsOf(b) == {k \in DOMAIN items : k[1] = b}

\* C38: whenever no add-activity call is in the middle of its writes, a
\* booking's totalPrice equals the sum of priceAtBooking over its line items,
\* also after two add-activity calls on the same booking ran concurrently.
TotalPriceIsSumOfLineItems ==
    (\A s \in Slots : slots[s].pc \in {"idle", "done"})
    => \A b \in DOMAIN bookings :
          bookings[b].totalPrice = SumItems(items, ItemsOf(b))

====
